---- MODULE Spec2Model ----
(***************************************************************************)
(* The CWA proxy handler (exports.handler) of the two source files         *)
(*   src/unnamed/part_000                 (reads the body as text, then    *)
(*                                         JSON.parse in its own try)      *)
(*   src/netlify/functions/cwa-proxy.js   (await response.json())          *)
(* as a state machine of invocations that suspend at their awaits.         *)
(*                                                                         *)
(* A JavaScript string is a sequence of characters; a character is a       *)
(* one-element TLA+ string, a non-ASCII character the string of its code   *)
(* point ("U+81FA").  JSON.parse, JSON.stringify, URLSearchParams and the  *)
(* template literals are computed on these sequences.  What the handler    *)
(* writes to the console is left out: nothing it does reads it back.       *)
(***************************************************************************)
EXTENDS Integers, Sequences, FiniteSets, TLC

(***************************************************************************)
(* JavaScript values that are not strings.                                 *)
(***************************************************************************)
\* undefined where a string may stand: distinct from every string, whose
\* elements are characters
undefined == <<"undefined">>

RECURSIVE Join(_, _)
\* Array.prototype.join on a sequence of strings (halving, so that the depth of
\* the recursion is the logarithm of the length)
Join(parts, sep) ==
    IF parts = <<>> THEN <<>>
    ELSE IF Len(parts) = 1 THEN parts[1]
    ELSE LET h == Len(parts) \div 2
         IN  Join(SubSeq(parts, 1, h), sep) \o sep \o Join(SubSeq(parts, h + 1, Len(parts)), sep)

DigitChars == <<"0", "1", "2", "3", "4", "5", "6", "7", "8", "9">>

RECURSIVE NumberToString(_)
\* String(n) of a non-negative integer, as the template literal ${response.status}
NumberToString(n) ==
    IF n < 10 THEN <<DigitChars[n + 1]>>
    ELSE NumberToString(n \div 10) \o <<DigitChars[(n % 10) + 1]>>

(***************************************************************************)
(* JSON values: the result of JSON.parse and the argument of               *)
(* JSON.stringify.  t is the kind, s the text of a string or the decimal   *)
(* text of a number, kids the elements of an array or, for an object, its  *)
(* members in insertion order as key, value, key, value, ...               *)
(* The texts read are of the JSON whose numbers are non-negative integers, *)
(* whose strings escape only the quote and the backslash, whose only       *)
(* whitespace is the space and whose keys are not integers (JavaScript     *)
(* would move those to the front of an object).                            *)
(***************************************************************************)
JNull == [t |-> "null", s |-> <<>>, kids |-> <<>>]
JTrue == [t |-> "true", s |-> <<>>, kids |-> <<>>]
JFalse == [t |-> "false", s |-> <<>>, kids |-> <<>>]
JNum(digits) == [t |-> "num", s |-> digits, kids |-> <<>>]
JStr(chars) == [t |-> "str", s |-> chars, kids |-> <<>>]
JArr(elems) == [t |-> "arr", s |-> <<>>, kids |-> elems]
JObj(members) == [t |-> "obj", s |-> <<>>, kids |-> members]

\* the index of key k among the members of an object, 0 when it has none
MemberIndex(members, k) ==
    LET hits == {j \in 1..(Len(members) \div 2) : members[2 * j - 1].s = k}
    IN  IF hits = {} THEN 0 ELSE CHOOSE j \in hits : TRUE

\* obj[k] = v: a key already there keeps its place and takes the new value
SetMember(members, k, v) ==
    LET j == MemberIndex(members, k)
    IN  IF j = 0 THEN members \o <<JStr(k), v>>
        ELSE [members EXCEPT ![2 * j] = v]

JsonWhitespace == {" "}
JsonDigits == {"0", "1", "2", "3", "4", "5", "6", "7", "8", "9"}

ParseFail == [ok |-> FALSE, val |-> JNull, pos |-> 0]
ParseOk(v, p) == [ok |-> TRUE, val |-> v, pos |-> p]

\* the first position from p on whose character is not in chars, Len(text) + 1 if none
FirstNotIn(text, p, chars) ==
    CHOOSE q \in p..(Len(text) + 1) :
        /\ q = Len(text) + 1 \/ text[q] \notin chars
        /\ \A r \in p..(q - 1) : text[r] \in chars

SkipWs(text, p) == FirstNotIn(text, p, JsonWhitespace)

HasLiteral(text, p, lit) ==
    /\ p + Len(lit) - 1 <= Len(text)
    /\ SubSeq(text, p, p + Len(lit) - 1) = lit

\* the number of backslashes that end just before position q, from position p on
BackslashRun(text, p, q) ==
    CHOOSE k \in 0..(q - p) :
        /\ \A j \in (q - k)..(q - 1) : text[j] = "\\"
        /\ k = q - p \/ text[q - k - 1] # "\\"

\* a backslash that escapes the character after it
EscapesNext(text, p, q) == text[q] = "\\" /\ BackslashRun(text, p, q) % 2 = 0

\* A string whose opening quote is at p - 1: it ends at the first quote that no
\* backslash escapes; \" and \\ are the escapes read.
ParseString(text, p) ==
    LET closing == {q \in p..Len(text) : text[q] = "\"" /\ BackslashRun(text, p, q) % 2 = 0}
    IN  IF closing = {} THEN ParseFail
        ELSE LET e == CHOOSE q \in closing : \A r \in closing : q <= r
             IN  IF \E q \in p..(e - 1) :
                        EscapesNext(text, p, q) /\ text[q + 1] \notin {"\"", "\\"}
                 THEN ParseFail
                 ELSE ParseOk(JStr(Join([j \in 1..(e - p) |->
                                            IF EscapesNext(text, p, p + j - 1) THEN <<>>
                                            ELSE <<text[p + j - 1]>>],
                                        <<>>)),
                              e + 1)

ScanDigits(text, p) == FirstNotIn(text, p, JsonDigits)

\* a non-negative integer without leading zeros
ParseNumber(text, p) ==
    IF text[p] = "0" THEN ParseOk(JNum(<<"0">>), p + 1)
    ELSE LET q == ScanDigits(text, p) IN ParseOk(JNum(SubSeq(text, p, q - 1)), q)

RECURSIVE ParseValue(_, _)
RECURSIVE ParseElements(_, _, _)
RECURSIVE ParseMembers(_, _, _)

ParseValue(text, p0) ==
    LET p == SkipWs(text, p0)
    IN  IF p > Len(text) THEN ParseFail
        ELSE IF HasLiteral(text, p, <<"n", "u", "l", "l">>) THEN ParseOk(JNull, p + 4)
        ELSE IF HasLiteral(text, p, <<"t", "r", "u", "e">>) THEN ParseOk(JTrue, p + 4)
        ELSE IF HasLiteral(text, p, <<"f", "a", "l", "s", "e">>) THEN ParseOk(JFalse, p + 5)
        ELSE IF text[p] = "\"" THEN ParseString(text, p + 1)
        ELSE IF text[p] \in JsonDigits THEN ParseNumber(text, p)
        ELSE IF text[p] = "["
             THEN LET q == SkipWs(text, p + 1)
                  IN  IF q <= Len(text) /\ text[q] = "]" THEN ParseOk(JArr(<<>>), q + 1)
                      ELSE ParseElements(text, q, <<>>)
        ELSE IF text[p] = "{"
             THEN LET q == SkipWs(text, p + 1)
                  IN  IF q <= Len(text) /\ text[q] = "}" THEN ParseOk(JObj(<<>>), q + 1)
                      ELSE ParseMembers(text, q, <<>>)
        ELSE ParseFail

ParseElements(text, p, acc) ==
    LET r == ParseValue(text, p)
    IN  IF ~r.ok THEN ParseFail
        ELSE LET q == SkipWs(text, r.pos)
             IN  IF q > Len(text) THEN ParseFail
                 ELSE IF text[q] = "," THEN ParseElements(text, q + 1, Append(acc, r.val))
                 ELSE IF text[q] = "]" THEN ParseOk(JArr(Append(acc, r.val)), q + 1)
                 ELSE ParseFail

ParseMembers(text, p0, acc) ==
    LET p == SkipWs(text, p0)
    IN  IF p > Len(text) \/ text[p] # "\"" THEN ParseFail
        ELSE LET k == ParseString(text, p + 1)
             IN  IF ~k.ok THEN ParseFail
                 ELSE LET c == SkipWs(text, k.pos)
                      IN  IF c > Len(text) \/ text[c] # ":" THEN ParseFail
                          ELSE LET r == ParseValue(text, c + 1)
                               IN  IF ~r.ok THEN ParseFail
                                   ELSE LET q == SkipWs(text, r.pos)
                                            m == SetMember(acc, k.val.s, r.val)
                                        IN  IF q > Len(text) THEN ParseFail
                                            ELSE IF text[q] = "," THEN ParseMembers(text, q + 1, m)
                                            ELSE IF text[q] = "}" THEN ParseOk(JObj(m), q + 1)
                                            ELSE ParseFail

\* JSON.parse(text): ok is FALSE where JSON.parse throws a SyntaxError
JSONparse(text) ==
    LET r == ParseValue(text, 1)
    IN  IF r.ok /\ SkipWs(text, r.pos) = Len(text) + 1
        THEN [ok |-> TRUE, val |-> r.val]
        ELSE [ok |-> FALSE, val |-> JNull]

EscapeString(chars) ==
    Join([j \in 1..Len(chars) |->
            IF chars[j] \in {"\"", "\\"} THEN <<"\\", chars[j]>> ELSE <<chars[j]>>],
         <<>>)

QuoteString(chars) == <<"\"">> \o EscapeString(chars) \o <<"\"">>

RECURSIVE JSONstringify(_)
\* JSON.stringify(v) without indentation
JSONstringify(v) ==
    CASE v.t = "null" -> <<"n", "u", "l", "l">>
      [] v.t = "true" -> <<"t", "r", "u", "e">>
      [] v.t = "false" -> <<"f", "a", "l", "s", "e">>
      [] v.t = "num" -> v.s
      [] v.t = "str" -> QuoteString(v.s)
      [] v.t = "arr" ->
            <<"[">> \o Join([j \in 1..Len(v.kids) |-> JSONstringify(v.kids[j])], <<",">>) \o <<"]">>
      [] v.t = "obj" ->
            <<"{">>
            \o Join([j \in 1..(Len(v.kids) \div 2) |->
                        QuoteString(v.kids[2 * j - 1].s) \o <<":">> \o JSONstringify(v.kids[2 * j])],
                    <<",">>)
            \o <<"}">>

(***************************************************************************)
(* JavaScript on JSON values.                                              *)
(***************************************************************************)
\* data[k] of a parsed value that is not null: found is FALSE for undefined
GetProperty(data, k) ==
    LET j == IF data.t = "obj" THEN MemberIndex(data.kids, k) ELSE 0
    IN  IF j = 0 THEN [found |-> FALSE, val |-> JNull]
        ELSE [found |-> TRUE, val |-> data.kids[2 * j]]

\* the truthiness that || tests
Truthy(v) ==
    CASE v.t \in {"null", "false"} -> FALSE
      [] v.t = "num" -> v.s # <<"0">>
      [] v.t = "str" -> v.s # <<>>
      [] OTHER -> TRUE

RECURSIVE JsToString(_)
\* String(v), the conversion a template literal applies
JsToString(v) ==
    CASE v.t = "null" -> <<"n", "u", "l", "l">>
      [] v.t = "true" -> <<"t", "r", "u", "e">>
      [] v.t = "false" -> <<"f", "a", "l", "s", "e">>
      [] v.t \in {"num", "str"} -> v.s
      [] v.t = "arr" ->
            Join([j \in 1..Len(v.kids) |->
                    IF v.kids[j].t = "null" THEN <<>> ELSE JsToString(v.kids[j])],
                 <<",">>)
      [] v.t = "obj" -> <<"[", "o", "b", "j", "e", "c", "t", " ", "O", "b", "j", "e", "c", "t", "]">>

\* `${CWA_API_KEY}` of a key that may be undefined
KeyToString(key) == IF key = undefined THEN <<"u", "n", "d", "e", "f", "i", "n", "e", "d">> ELSE key

(***************************************************************************)
(* URLSearchParams(otherParams).toString(): the application/x-www-form-    *)
(* urlencoded serializer on the characters the requests of the model use.  *)
(***************************************************************************)
FormUnreserved ==
    {"a", "b", "c", "d", "e", "f", "g", "h", "i", "j", "k", "l", "m",
     "n", "o", "p", "q", "r", "s", "t", "u", "v", "w", "x", "y", "z",
     "A", "B", "C", "D", "E", "F", "G", "H", "I", "J", "K", "L", "M",
     "N", "O", "P", "Q", "R", "S", "T", "U", "V", "W", "X", "Y", "Z",
     "0", "1", "2", "3", "4", "5", "6", "7", "8", "9", "*", "-", ".", "_"}

\* the UTF-8 bytes of a character, each as two hexadecimal digits
Utf8Hex(c) ==
    CASE c = "&" -> <<<<"2", "6">>>>
      [] c = "=" -> <<<<"3", "D">>>>
      [] c = "/" -> <<<<"2", "F">>>>
      [] c = "?" -> <<<<"3", "F">>>>
      [] c = "," -> <<<<"2", "C">>>>
      [] c = "+" -> <<<<"2", "B">>>>
      [] c = "%" -> <<<<"2", "5">>>>
      [] c = "U+81FA" -> <<<<"E", "8">>, <<"8", "7">>, <<"B", "A">>>>
      [] c = "U+5317" -> <<<<"E", "5">>, <<"8", "C">>, <<"9", "7">>>>

FormEncodeChar(c) ==
    IF c \in FormUnreserved THEN <<c>>
    ELSE IF c = " " THEN <<"+">>
    ELSE LET bytes == Utf8Hex(c)
         IN  Join([j \in 1..Len(bytes) |-> <<"%">> \o bytes[j]], <<>>)

FormEncode(chars) == Join([j \in 1..Len(chars) |-> FormEncodeChar(chars[j])], <<>>)

\* params: the own properties of the object in insertion order, as <<key, value>>
URLSearchParamsToString(params) ==
    Join([j \in 1..Len(params) |->
            FormEncode(params[j][1]) \o <<"=">> \o FormEncode(params[j][2])],
         <<"&">>)

(***************************************************************************)
(* The inbound event.  query is what the caller sent, a sequence of        *)
(* <<key, value>> pairs; queryStringParameters is what the handler reads:  *)
(* null, or an object with one property per key (props, in insertion       *)
(* order, as <<key, value>>).                                              *)
(***************************************************************************)
NullParams == [kind |-> "null", props |-> <<>>]
ObjectParams(props) == [kind |-> "object", props |-> props]
DatasetIdKey == <<"d", "a", "t", "a", "s", "e", "t", "I", "d">>

\* the values sent for key k, in order
ValuesOf(query, k) ==
    LET RECURSIVE Pick(_)
        Pick(q) == IF q = <<>> THEN <<>>
                   ELSE (IF Head(q)[1] = k THEN <<Head(q)[2]>> ELSE <<>>) \o Pick(Tail(q))
    IN  Pick(query)

\* The object of a query: a key sent several times has one property, holding
\* the values joined by ", " (multi = "join") or the last value ("last"),
\* as the platform that delivers the event does it.
QueryStringParameters(query, multi) ==
    LET RECURSIVE Build(_, _)
        Build(q, acc) ==
            IF q = <<>> THEN acc
            ELSE LET k == Head(q)[1]
                     vs == ValuesOf(query, k)
                     v == IF multi = "join" THEN Join(vs, <<",", " ">>) ELSE vs[Len(vs)]
                 IN  Build(Tail(q),
                           IF \E j \in 1..Len(acc) : acc[j][1] = k THEN acc
                           ELSE Append(acc, <<k, v>>))
    IN  ObjectParams(Build(query, <<>>))

\* const { datasetId, ...otherParams } = event.queryStringParameters, of an object
DatasetIdOf(qsp) ==
    LET hits == {j \in 1..Len(qsp.props) : qsp.props[j][1] = DatasetIdKey}
    IN  IF hits = {} THEN undefined ELSE qsp.props[CHOOSE j \in hits : TRUE][2]

OtherParamsOf(qsp) ==
    LET RECURSIVE Rest(_)
        Rest(q) == IF q = <<>> THEN <<>>
                   ELSE (IF Head(q)[1] = DatasetIdKey THEN <<>> ELSE <<Head(q)>>) \o Rest(Tail(q))
    IN  Rest(qsp.props)

\* !datasetId
MissingDatasetId(datasetId) == datasetId = undefined \/ datasetId = <<>>

cwaApiBaseUrl == <<"h", "t", "t", "p", "s", ":", "/", "/", "o", "p", "e", "n", "d", "a", "t", "a", ".", "c", "w", "a", ".", "g", "o", "v", ".", "t", "w", "/", "a", "p", "i", "/", "v", "1", "/", "r", "e", "s", "t", "/", "d", "a", "t", "a", "s", "t", "o", "r", "e">>

\* `${cwaApiBaseUrl}/${datasetId}?${cwaQueryParams.toString()}`
CwaUrl(datasetId, otherParams) ==
    cwaApiBaseUrl \o <<"/">> \o datasetId \o <<"?">> \o URLSearchParamsToString(otherParams)

\* CwaRequest with the key also set as a query parameter, as in
\* cwaQueryParams.set('Authorization', CWA_API_KEY)
CwaRequestKeyInQuery(qsp, key) ==
    [url |-> CwaUrl(DatasetIdOf(qsp),
                    Append(OtherParamsOf(qsp), <<<<"A", "u", "t", "h", "o", "r", "i", "z", "a", "t", "i", "o", "n">>, KeyToString(key)>>)),
     headers |-> {<<"Authorization", <<"C", "W", "A", " ">> \o KeyToString(key)>>}]

\* the call fetch(cwaUrl, { headers: { 'Authorization': `CWA ${CWA_API_KEY}` } })
CwaRequest(qsp, key) ==
    [url |-> CwaUrl(DatasetIdOf(qsp), OtherParamsOf(qsp)),
     headers |-> {<<"Authorization", <<"C", "W", "A", " ">> \o KeyToString(key)>>}]

(***************************************************************************)
(* What an invocation ends with: a returned response                       *)
(* { statusCode, headers, body }, or an exception that leaves the handler  *)
(* (the promise of the async function is rejected).                        *)
(***************************************************************************)
NoResult == [kind |-> "none", statusCode |-> 0, headers |-> {}, body |-> <<>>, message |-> <<>>]

Thrown(message) ==
    [kind |-> "throw", statusCode |-> 0, headers |-> {}, body |-> <<>>, message |-> message]

Returned(statusCode, headers, body) ==
    [kind |-> "return", statusCode |-> statusCode, headers |-> headers, body |-> body,
     message |-> <<>>]

\* the headers object written out in each of the return statements
JsonCorsHeaders ==
    {<<"Content-Type", "application/json">>, <<"Access-Control-Allow-Origin", "*">>}

\* messages of the errors the runtime raises
DestructureNullMessage ==
    <<"C", "a", "n", "n", "o", "t", " ", "d", "e", "s", "t", "r", "u", "c", "t", "u", "r", "e", " ", "p", "r", "o", "p", "e", "r", "t", "y", " ", "'", "d", "a", "t", "a", "s", "e", "t", "I", "d", "'", " ", "o", "f", " ", "'", "e", "v", "e", "n", "t", ".", "q", "u", "e", "r", "y", "S", "t", "r", "i", "n", "g", "P", "a", "r", "a", "m", "e", "t", "e", "r", "s", "'", " ", "a", "s", " ", "i", "t", " ", "i", "s", " ", "n", "u", "l", "l", ".">>
ReadNullMessage == <<"C", "a", "n", "n", "o", "t", " ", "r", "e", "a", "d", " ", "p", "r", "o", "p", "e", "r", "t", "i", "e", "s", " ", "o", "f", " ", "n", "u", "l", "l", " ", "(", "r", "e", "a", "d", "i", "n", "g", " ", "'", "m", "e", "s", "s", "a", "g", "e", "'", ")">>
FetchFailedMessage == <<"f", "e", "t", "c", "h", " ", "f", "a", "i", "l", "e", "d">>
BodyTerminatedMessage == <<"t", "e", "r", "m", "i", "n", "a", "t", "e", "d">>
SyntaxErrorMessage(text) ==
    IF text = <<>> THEN <<"U", "n", "e", "x", "p", "e", "c", "t", "e", "d", " ", "e", "n", "d", " ", "o", "f", " ", "J", "S", "O", "N", " ", "i", "n", "p", "u", "t">> ELSE <<"U", "n", "e", "x", "p", "e", "c", "t", "e", "d", " ", "t", "o", "k", "e", "n", " ", "i", "n", " ", "J", "S", "O", "N">>

\* if (!datasetId) return { statusCode: 400, ... }
MissingDatasetIdResponse ==
    Returned(400, JsonCorsHeaders,
             JSONstringify(JObj(<<JStr(<<"e", "r", "r", "o", "r">>),
                                  JStr(<<"M", "i", "s", "s", "i", "n", "g", " ", "d", "a", "t", "a", "s", "e", "t", "I", "d", " ", "i", "n", " ", "q", "u", "e", "r", "y", " ", "p", "a", "r", "a", "m", "e", "t", "e", "r", "s", ".">>)>>)))

SnippetLength == 200

\* String.prototype.substring(0, n)
Substring0(chars, n) == SubSeq(chars, 1, IF Len(chars) < n THEN Len(chars) ELSE n)

\* ParseFailureResponse with the body put together by concatenation, the raw
\* snippet not escaped
ParseFailureResponseRaw(rawResponseText, datasetId, message) ==
    Returned(500, JsonCorsHeaders,
             <<"{", "\"", "e", "r", "r", "o", "r", "\"", ":", "\"", "S", "e", "r", "v", "e", "r", "l", "e", "s", "s", " ", "F", "u", "n", "c", "t", "i", "o", "n", " ", "I", "n", "t", "e", "r", "n", "a", "l", " ", "E", "r", "r", "o", "r", ":", " ", "F", "a", "i", "l", "e", "d", " ", "t", "o", " ", "p", "a", "r", "s", "e", " ", "C", "W", "A", " ", "A", "P", "I", " ", "r", "e", "s", "p", "o", "n", "s", "e", " ", "a", "s", " ", "J", "S", "O", "N", ".", " ", "O", "r", "i", "g", "i", "n", "a", "l", " ", "e", "r", "r", "o", "r", ":", " ">>
             \o message \o <<"\"", ",", "\"", "r", "a", "w", "_", "c", "w", "a", "_", "r", "e", "s", "p", "o", "n", "s", "e", "_", "s", "n", "i", "p", "p", "e", "t", "\"", ":", "\"">>
             \o Substring0(rawResponseText, SnippetLength) \o <<".", ".", ".", "\"", ",", "\"", "d", "a", "t", "a", "s", "e", "t", "I", "d", "\"", ":", "\"">>
             \o datasetId \o <<"\"", "}">>)

\* catch (jsonParseError) { return { statusCode: 500, ... } }
ParseFailureResponse(rawResponseText, datasetId, message) ==
    Returned(500, JsonCorsHeaders,
             JSONstringify(JObj(<<
                 JStr(<<"e", "r", "r", "o", "r">>),
                 JStr(<<"S", "e", "r", "v", "e", "r", "l", "e", "s", "s", " ", "F", "u", "n", "c", "t", "i", "o", "n", " ", "I", "n", "t", "e", "r", "n", "a", "l", " ", "E", "r", "r", "o", "r", ":", " ", "F", "a", "i", "l", "e", "d", " ", "t", "o", " ", "p", "a", "r", "s", "e", " ", "C", "W", "A", " ", "A", "P", "I", " ", "r", "e", "s", "p", "o", "n", "s", "e", " ", "a", "s", " ", "J", "S", "O", "N", ".", " ", "O", "r", "i", "g", "i", "n", "a", "l", " ", "e", "r", "r", "o", "r", ":", " ">>
                      \o message),
                 JStr(<<"r", "a", "w", "_", "c", "w", "a", "_", "r", "e", "s", "p", "o", "n", "s", "e", "_", "s", "n", "i", "p", "p", "e", "t">>),
                 JStr(Substring0(rawResponseText, SnippetLength) \o <<".", ".", ".">>),
                 JStr(<<"d", "a", "t", "a", "s", "e", "t", "I", "d">>),
                 JStr(datasetId)>>)))

\* data.message || 'Unknown error', of data that is not null
MessageOrUnknown(data) ==
    LET m == GetProperty(data, <<"m", "e", "s", "s", "a", "g", "e">>)
    IN  IF m.found /\ Truthy(m.val) THEN JsToString(m.val) ELSE <<"U", "n", "k", "n", "o", "w", "n", " ", "e", "r", "r", "o", "r">>

\* if (!response.ok) return { statusCode: response.status, ... }, of data that is not null
UpstreamErrorResponse(status, data) ==
    Returned(status, JsonCorsHeaders,
             JSONstringify(JObj(<<
                 JStr(<<"e", "r", "r", "o", "r">>),
                 JStr(<<"C", "W", "A", " ", "A", "P", "I", " ", "e", "r", "r", "o", "r", " ", "(">> \o NumberToString(status) \o <<")", ":", " ">>
                      \o MessageOrUnknown(data)),
                 JStr(<<"c", "w", "a", "_", "r", "e", "s", "p", "o", "n", "s", "e">>),
                 data>>)))

\* return { statusCode: 200, ..., body: JSON.stringify(data) }
SuccessResponse(data) == Returned(200, JsonCorsHeaders, JSONstringify(data))

\* catch (error) { return { statusCode: 500, ... } }
InternalErrorResponse(message) ==
    Returned(500, JsonCorsHeaders,
             JSONstringify(JObj(<<JStr(<<"e", "r", "r", "o", "r">>),
                                  JStr(<<"S", "e", "r", "v", "e", "r", "l", "e", "s", "s", " ", "F", "u", "n", "c", "t", "i", "o", "n", " ", "I", "n", "t", "e", "r", "n", "a", "l", " ", "E", "r", "r", "o", "r", ":", " ">> \o message)>>)))

\* ResponseOk that takes 200 for the only success
ResponseOkOnly200(status) == status = 200

\* response.ok
ResponseOk(status) == 200 <= status /\ status <= 299

\* The handler from the parsed data on.  data.message of null throws a
\* TypeError inside the outer try, which its catch turns into a response.
AfterParse(status, data) ==
    IF ~ResponseOk(status)
    THEN IF data = JNull THEN InternalErrorResponse(ReadNullMessage)
         ELSE UpstreamErrorResponse(status, data)
    ELSE SuccessResponse(data)

\* part_000, from `await response.text()` on
TextResult(resp, datasetId) ==
    IF ~resp.readable THEN InternalErrorResponse(BodyTerminatedMessage)
    ELSE LET parsed == JSONparse(resp.body)
         IN  IF ~parsed.ok
             THEN ParseFailureResponse(resp.body, datasetId, SyntaxErrorMessage(resp.body))
             ELSE AfterParse(resp.status, parsed.val)

\* cwa-proxy.js, from `await response.json()` on
JsonResult(resp) ==
    IF ~resp.readable THEN InternalErrorResponse(BodyTerminatedMessage)
    ELSE LET parsed == JSONparse(resp.body)
         IN  IF ~parsed.ok THEN InternalErrorResponse(SyntaxErrorMessage(resp.body))
             ELSE AfterParse(resp.status, parsed.val)

(***************************************************************************)
(* The upstream's answer to a call.                                        *)
(***************************************************************************)
NoResponse == [kind |-> "none", status |-> 0, body |-> <<>>, readable |-> FALSE]
NetworkError == [kind |-> "rejected", status |-> 0, body |-> <<>>, readable |-> FALSE]
Resolved(status, body, readable) ==
    [kind |-> "resolved", status |-> status, body |-> body, readable |-> readable]

(***************************************************************************)
(* Bounds and inputs.                                                      *)
(***************************************************************************)
NumInv == 2
Inv == 1..NumInv

\* characters that pad the long non-JSON body beyond SnippetLength
PadLength == 191

NoEvent == [query |-> <<>>, queryStringParameters |-> [kind |-> "none", props |-> <<>>]]

Queries ==
    { <<>>,
      << <<DatasetIdKey, <<"F", "-", "C", "0", "0", "3", "2", "-", "0", "0", "1">>>> >>,
      << <<DatasetIdKey, <<"F", "-", "C", "0", "0", "3", "2", "-", "0", "0", "1">>>>, <<<<"l", "o", "c", "a", "t", "i", "o", "n", "N", "a", "m", "e">>, <<"U+81FA", "U+5317">>>> >>,
      << <<<<"l", "o", "c", "a", "t", "i", "o", "n", "N", "a", "m", "e">>, <<"U+81FA", "U+5317">>>> >>,
      << <<DatasetIdKey, <<>> >>, <<<<"a">>, <<"1">>>> >>,
      << <<DatasetIdKey, <<"X">>>>, <<<<"a">>, <<"1">>>>, <<<<"a">>, <<"2">>>> >>,
      << <<<<"a">>, <<"b", " ", "c", "&", "d", "=", "e">>>>, <<DatasetIdKey, <<"X">>>>, <<<<"b">>, <<"2">>>> >>,
      << <<DatasetIdKey, <<"A", "/", "b", "?", "c">>>> >> }

\* the events the platform can deliver for a query
EventsOf(query) ==
    {[query |-> query, queryStringParameters |-> QueryStringParameters(query, multi)] :
        multi \in {"join", "last"}}
    \cup (IF query = <<>> THEN {[query |-> query, queryStringParameters |-> NullParams]} ELSE {})

Events == UNION {EventsOf(q) : q \in Queries}

Keys == {undefined, <<"k", "1">>, <<"k", "2">>}

LongBody == <<"<", "a", " ", "h", "r", "e", "f", "=", "\"", "x", "\\", "y", "\"", ">">> \o [j \in 1..PadLength |-> "x"]

Bodies ==
    { <<"{", "\"", "f", "o", "o", "\"", ":", "\"", "b", "a", "r", "\"", "}">>,
      <<"{", "\"", "m", "e", "s", "s", "a", "g", "e", "\"", ":", "\"", "n", "o", "t", " ", "f", "o", "u", "n", "d", "\"", "}">>,
      <<"{", "\"", "m", "e", "s", "s", "a", "g", "e", "\"", ":", "\"", "\"", "}">>,
      <<"{", "\"", "m", "e", "s", "s", "a", "g", "e", "\"", ":", "0", "}">>,
      <<"{", "\"", "m", "e", "s", "s", "a", "g", "e", "\"", ":", "[", "1", ",", "n", "u", "l", "l", "]", "}">>,
      <<"{", " ", "\"", "a", "\"", " ", ":", " ", "1", " ", ",", " ", "\"", "a", "\"", " ", ":", " ", "[", " ", "]", " ", "}">>,
      <<"n", "u", "l", "l">>,
      <<"t", "r", "u", "e">>,
      <<"4", "0", "4">>,
      <<"\"", "n", "o", "t", " ", "f", "o", "u", "n", "d", "\"">>,
      <<"[", "{", "\"", "m", "e", "s", "s", "a", "g", "e", "\"", ":", "\"", "x", "\"", "}", "]">>,
      <<"<", "h", "t", "m", "l", ">", "e", "r", "r", "o", "r", "<", "/", "h", "t", "m", "l", ">">>,
      <<"{", "\"", "f", "o", "o", "\"", ":", "\"", "b", "a", "r", "\"", "}", "x">>,
      <<>>,
      LongBody }

Statuses == {200, 201, 299, 300, 404, 500}

Responses ==
    {Resolved(st, b, TRUE) : st \in Statuses, b \in Bodies}
    \cup {Resolved(st, <<>>, FALSE) : st \in {200, 404}}

\* the inputs of the specification of concurrent invocations
ConcEvents ==
    UNION {EventsOf(q) : q \in { <<>>,
                                 << <<DatasetIdKey, <<"F", "-", "C", "0", "0", "3", "2", "-", "0", "0", "1">>>> >>,
                                 << <<DatasetIdKey, <<"X">>>>, <<<<"a">>, <<"1">>>> >> }}

ConcKeys == {undefined, <<"k", "1">>}

ConcResponses ==
    { Resolved(200, <<"{", "\"", "f", "o", "o", "\"", ":", "\"", "b", "a", "r", "\"", "}">>, TRUE),
      Resolved(404, <<"{", "\"", "m", "e", "s", "s", "a", "g", "e", "\"", ":", "\"", "n", "o", "t", " ", "f", "o", "u", "n", "d", "\"", "}">>, TRUE),
      Resolved(200, <<"<", "h", "t", "m", "l", ">", "e", "r", "r", "o", "r", "<", "/", "h", "t", "m", "l", ">">>, TRUE) }

(***************************************************************************)
(* State.                                                                  *)
(***************************************************************************)
VARIABLES
    deployed,      \* which file's handler runs: "part_000" or "cwa-proxy"
    pc,            \* per invocation: "idle", "await_fetch", "await_body", "returned", "thrown"
    event,         \* per invocation: the event it was called with
    CWA_API_KEY,   \* per invocation: process.env.CWA_API_KEY as the handler read it
    fetches,       \* per invocation: the calls to fetch it has made, in order
    response,      \* per invocation: what its call to fetch settled with
    result         \* per invocation: the response returned or the exception thrown

vars == <<deployed, pc, event, CWA_API_KEY, fetches, response, result>>

Init ==
    /\ deployed \in {"part_000", "cwa-proxy"}
    /\ pc = [i \in Inv |-> "idle"]
    /\ event = [i \in Inv |-> NoEvent]
    /\ CWA_API_KEY = [i \in Inv |-> undefined]
    /\ fetches = [i \in Inv |-> <<>>]
    /\ response = [i \in Inv |-> NoResponse]
    /\ result = [i \in Inv |-> NoResult]

\* The handler from its call to the first await, return or throw.
HandlerStart(i, events, keys) ==
    /\ pc[i] = "idle"
    /\ \E ev \in events, key \in keys :
        LET qsp == ev.queryStringParameters
        IN  /\ event' = [event EXCEPT ![i] = ev]
            /\ CWA_API_KEY' = [CWA_API_KEY EXCEPT ![i] = key]
            /\ IF qsp.kind = "null"
               THEN /\ pc' = [pc EXCEPT ![i] = "thrown"]
                    /\ result' = [result EXCEPT ![i] = Thrown(DestructureNullMessage)]
                    /\ UNCHANGED fetches
               ELSE IF MissingDatasetId(DatasetIdOf(qsp))
               THEN /\ pc' = [pc EXCEPT ![i] = "returned"]
                    /\ result' = [result EXCEPT ![i] = MissingDatasetIdResponse]
                    /\ UNCHANGED fetches
               ELSE /\ pc' = [pc EXCEPT ![i] = "await_fetch"]
                    /\ fetches' = [fetches EXCEPT ![i] = Append(@, CwaRequest(qsp, key))]
                    /\ UNCHANGED result
    /\ UNCHANGED <<deployed, response>>

\* FetchRejected with a retry: the call is issued again, up to three times
FetchRejectedRetry(i) ==
    /\ pc[i] = "await_fetch"
    /\ IF Len(fetches[i]) < 3
       THEN /\ fetches' = [fetches EXCEPT ![i] = Append(fetches[i], fetches[i][1])]
            /\ UNCHANGED <<response, result, pc>>
       ELSE /\ response' = [response EXCEPT ![i] = NetworkError]
            /\ result' = [result EXCEPT ![i] = InternalErrorResponse(FetchFailedMessage)]
            /\ pc' = [pc EXCEPT ![i] = "returned"]
            /\ UNCHANGED fetches
    /\ UNCHANGED <<deployed, event, CWA_API_KEY>>

\* await fetch(...) rejects: the catch block returns
FetchRejected(i) ==
    /\ pc[i] = "await_fetch"
    /\ response' = [response EXCEPT ![i] = NetworkError]
    /\ result' = [result EXCEPT ![i] = InternalErrorResponse(FetchFailedMessage)]
    /\ pc' = [pc EXCEPT ![i] = "returned"]
    /\ UNCHANGED <<deployed, event, CWA_API_KEY, fetches>>

\* FetchResolved with `response` declared at module level: one variable for
\* all the invocations
FetchResolvedShared(i, responses) ==
    /\ pc[i] = "await_fetch"
    /\ \E r \in responses : response' = [j \in Inv |-> r]
    /\ pc' = [pc EXCEPT ![i] = "await_body"]
    /\ UNCHANGED <<deployed, event, CWA_API_KEY, fetches, result>>

\* await fetch(...) resolves: the handler goes on to read the body
FetchResolved(i, responses) ==
    /\ pc[i] = "await_fetch"
    /\ \E r \in responses : response' = [response EXCEPT ![i] = r]
    /\ pc' = [pc EXCEPT ![i] = "await_body"]
    /\ UNCHANGED <<deployed, event, CWA_API_KEY, fetches, result>>

\* part_000: await response.text() settles and the handler runs to its return
TextSettled(i) ==
    /\ deployed = "part_000"
    /\ pc[i] = "await_body"
    /\ result' = [result EXCEPT
                    ![i] = TextResult(response[i], DatasetIdOf(event[i].queryStringParameters))]
    /\ pc' = [pc EXCEPT ![i] = "returned"]
    /\ UNCHANGED <<deployed, event, CWA_API_KEY, fetches, response>>

\* cwa-proxy.js: await response.json() settles and the handler runs to its return
JsonSettled(i) ==
    /\ deployed = "cwa-proxy"
    /\ pc[i] = "await_body"
    /\ result' = [result EXCEPT ![i] = JsonResult(response[i])]
    /\ pc' = [pc EXCEPT ![i] = "returned"]
    /\ UNCHANGED <<deployed, event, CWA_API_KEY, fetches, response>>

\* one invocation, over all the inputs
Next ==
    \/ HandlerStart(1, Events, Keys)
    \/ FetchRejected(1)
    \/ FetchResolved(1, Responses)
    \/ TextSettled(1)
    \/ JsonSettled(1)

Spec == Init /\ [][Next]_vars

\* NumInv invocations running concurrently
NextConc ==
    \E i \in Inv :
        \/ HandlerStart(i, ConcEvents, ConcKeys)
        \/ FetchRejected(i)
        \/ FetchResolved(i, ConcResponses)
        \/ TextSettled(i)
        \/ JsonSettled(i)

SpecConc == Init /\ [][NextConc]_vars

(***************************************************************************)
(* Properties.                                                             *)
(***************************************************************************)
Finished(i) == pc[i] \in {"returned", "thrown"}

\* the value the caller sent for datasetId is there and is not the empty string
DatasetIdSent(ev) ==
    LET vs == ValuesOf(ev.query, DatasetIdKey)
    IN  vs # <<>> /\ vs[1] # <<>>

\* the upstream answered invocation i with a body that could be read
BodyRead(i) == response[i].kind = "resolved" /\ response[i].readable

StartsWith(chars, prefix) ==
    Len(prefix) <= Len(chars) /\ SubSeq(chars, 1, Len(prefix)) = prefix

Contains(chars, part) ==
    \E p \in 1..(Len(chars) - Len(part) + 1) : SubSeq(chars, p, p + Len(part) - 1) = part

\* the members of the object that a response body is the JSON text of
BodyMembers(r) == JSONparse(r.body).val.kids

\* C1: every response the handler returns, on every branch, carries the headers
\* Content-Type: application/json and Access-Control-Allow-Origin: *, and its
\* body is valid JSON text.
C1_EveryResponseIsJsonWithCors ==
    \A i \in Inv :
        result[i].kind = "return" =>
            /\ <<"Content-Type", "application/json">> \in result[i].headers
            /\ <<"Access-Control-Allow-Origin", "*">> \in result[i].headers
            /\ JSONparse(result[i].body).ok

\* part_000 has answered an upstream body that is not JSON, holds quotes and a
\* backslash and is longer than the snippet
C1_Witness ==
    /\ deployed = "part_000"
    /\ pc[1] = "returned"
    /\ response[1].kind = "resolved"
    /\ response[1].body = LongBody
    /\ result[1].statusCode = 500

\* a response of status 500 whose body is { error: "Serverless Function Internal Error: ..." }
IsInternalError(r) ==
    /\ r.kind = "return"
    /\ r.statusCode = 500
    /\ JSONparse(r.body).ok
    /\ JSONparse(r.body).val.t = "obj"
    /\ Len(BodyMembers(r)) = 2
    /\ BodyMembers(r)[1] = JStr(<<"e", "r", "r", "o", "r">>)
    /\ BodyMembers(r)[2].t = "str"
    /\ StartsWith(BodyMembers(r)[2].s, <<"S", "e", "r", "v", "e", "r", "l", "e", "s", "s", " ", "F", "u", "n", "c", "t", "i", "o", "n", " ", "I", "n", "t", "e", "r", "n", "a", "l", " ", "E", "r", "r", "o", "r", ":", " ">>)

\* C2: for every event, with or without a query-parameter mapping, no exception
\* leaves the handler: every invocation ends by returning a response, and an
\* exception raised while reading the query parameters, in the fetch, while
\* reading the body or while building the error envelope gives the status-500
\* response { error: "Serverless Function Internal Error: <message>" }.
C2_NoExceptionEscapes ==
    \A i \in Inv :
        /\ result[i].kind # "throw"
        /\ Finished(i) =>
            /\ result[i].kind = "return"
            /\ ( \/ event[i].queryStringParameters.kind = "null"
                 \/ response[i].kind = "rejected"
                 \/ response[i].kind = "resolved" /\ ~response[i].readable
                 \/ /\ BodyRead(i)
                    /\ ~(200 <= response[i].status /\ response[i].status <= 299)
                    /\ JSONparse(response[i].body) = [ok |-> TRUE, val |-> JNull] )
               => IsInternalError(result[i])

\* C3: for every request whose datasetId is absent or the empty string, the
\* handler returns status 400 with the body
\* { error: "Missing datasetId in query parameters." } and makes no outbound call.
C3_MissingDatasetIdGives400 ==
    \A i \in Inv :
        (pc[i] # "idle" /\ ~DatasetIdSent(event[i])) =>
            /\ result[i].kind = "return"
            /\ result[i].statusCode = 400
            /\ JSONparse(result[i].body).ok
            /\ BodyMembers(result[i])
                 = <<JStr(<<"e", "r", "r", "o", "r">>), JStr(<<"M", "i", "s", "s", "i", "n", "g", " ", "d", "a", "t", "a", "s", "e", "t", "I", "d", " ", "i", "n", " ", "q", "u", "e", "r", "y", " ", "p", "a", "r", "a", "m", "e", "t", "e", "r", "s", ".">>)>>
            /\ fetches[i] = <<>>

\* C4: for every upstream response whose body parses as JSON (any JSON value,
\* null included) and whose status is outside 200-299, the handler returns the
\* upstream's status with the body
\* { error: "CWA API error (<status>): <m>", cwa_response: <parsed body> },
\* <m> the message field of the parsed body when it has one that is not empty,
\* "Unknown error" otherwise.
C4_UpstreamErrorIsForwarded ==
    \A i \in Inv :
        LET parsed == JSONparse(response[i].body)
            m == GetProperty(parsed.val, <<"m", "e", "s", "s", "a", "g", "e">>)
        IN  ( /\ Finished(i)
              /\ BodyRead(i)
              /\ parsed.ok
              /\ ~(200 <= response[i].status /\ response[i].status <= 299) )
            =>
            /\ result[i].kind = "return"
            /\ result[i].statusCode = response[i].status
            /\ JSONparse(result[i].body).ok
            /\ BodyMembers(result[i])
                 = <<JStr(<<"e", "r", "r", "o", "r">>),
                     JStr(<<"C", "W", "A", " ", "A", "P", "I", " ", "e", "r", "r", "o", "r", " ", "(">> \o NumberToString(response[i].status) \o <<")", ":", " ">>
                          \o (IF m.found /\ Truthy(m.val) THEN JsToString(m.val)
                              ELSE <<"U", "n", "k", "n", "o", "w", "n", " ", "e", "r", "r", "o", "r">>)),
                     JStr(<<"c", "w", "a", "_", "r", "e", "s", "p", "o", "n", "s", "e">>),
                     parsed.val>>

\* C5: whenever the upstream body is not valid JSON, whatever the upstream
\* status, the handler returns status 500 with a body of the shape
\* { error, raw_cwa_response_snippet, datasetId }: error mentions the JSON parse
\* failure, raw_cwa_response_snippet is the first 200 characters of the raw body
\* and datasetId is the request's datasetId.
C5_ParseFailureEnvelope ==
    \A i \in Inv :
        (Finished(i) /\ BodyRead(i) /\ ~JSONparse(response[i].body).ok) =>
            /\ result[i].kind = "return"
            /\ result[i].statusCode = 500
            /\ JSONparse(result[i].body).ok
            /\ Len(BodyMembers(result[i])) = 6
            /\ BodyMembers(result[i])[1] = JStr(<<"e", "r", "r", "o", "r">>)
            /\ Contains(BodyMembers(result[i])[2].s, <<"J", "S", "O", "N">>)
            /\ BodyMembers(result[i])[3] = JStr(<<"r", "a", "w", "_", "c", "w", "a", "_", "r", "e", "s", "p", "o", "n", "s", "e", "_", "s", "n", "i", "p", "p", "e", "t">>)
            /\ BodyMembers(result[i])[4] = JStr(Substring0(response[i].body, 200))
            /\ BodyMembers(result[i])[5] = JStr(<<"d", "a", "t", "a", "s", "e", "t", "I", "d">>)
            /\ BodyMembers(result[i])[6] = JStr(ValuesOf(event[i].query, DatasetIdKey)[1])

\* C6: for every upstream response whose status is in 200-299 and whose body
\* parses as JSON, the handler returns status 200 and a body that is the
\* serialization of the parsed value itself: parsing the body gives that value
\* again, with nothing added, removed or wrapped around it.
C6_SuccessIsPassedThrough ==
    \A i \in Inv :
        LET parsed == JSONparse(response[i].body)
        IN  ( /\ Finished(i)
              /\ BodyRead(i)
              /\ parsed.ok
              /\ 200 <= response[i].status /\ response[i].status <= 299 )
            =>
            /\ result[i].kind = "return"
            /\ result[i].statusCode = 200
            /\ result[i].body = JSONstringify(parsed.val)
            /\ JSONparse(result[i].body) = parsed

\* status 299 and a body with whitespace and a key given twice have been answered
C6_Witness ==
    /\ pc[1] = "returned"
    /\ BodyRead(1)
    /\ response[1].status = 299
    /\ response[1].body = <<"{", " ", "\"", "a", "\"", " ", ":", " ", "1", " ", ",", " ", "\"", "a", "\"", " ", ":", " ", "[", " ", "]", " ", "}">>
    /\ result[1].body = <<"{", "\"", "a", "\"", ":", "[", "]", "}">>

\* the pieces of chars between the occurrences of sep
Split(chars, sep) ==
    LET at == {p \in 1..Len(chars) : chars[p] = sep}
        cut(n) == IF n = 0 THEN 0
                  ELSE IF n = Cardinality(at) + 1 THEN Len(chars) + 1
                  ELSE CHOOSE p \in at : Cardinality({q \in at : q <= p}) = n
    IN  [n \in 1..(Cardinality(at) + 1) |-> SubSeq(chars, cut(n - 1) + 1, cut(n) - 1)]

\* how many times x occurs in a sequence
Count(seq, x) == Cardinality({j \in 1..Len(seq) : seq[j] = x})

SameBag(a, b) ==
    \A x \in {a[j] : j \in 1..Len(a)} \cup {b[j] : j \in 1..Len(b)} : Count(a, x) = Count(b, x)

\* the encoded pairs of the query that the caller sent, datasetId left out
ForwardedPairs(query) ==
    LET other == SelectSeq(query, LAMBDA kv : kv[1] # DatasetIdKey)
    IN  [j \in 1..Len(other) |-> FormEncode(other[j][1]) \o <<"=">> \o FormEncode(other[j][2])]

\* C7: the upstream URL is the base, "/", the datasetId as received, "?", and a
\* query string holding every inbound parameter other than datasetId and no
\* other pair; several values sent for one key are each kept as a pair of
\* their own.
C7_UrlForwardsEveryPair ==
    \A i \in Inv :
        fetches[i] # <<>> =>
            LET head == cwaApiBaseUrl \o <<"/">> \o ValuesOf(event[i].query, DatasetIdKey)[1]
                                      \o <<"?">>
                url == fetches[i][1].url
                qs == SubSeq(url, Len(head) + 1, Len(url))
            IN  /\ StartsWith(url, head)
                /\ SameBag(IF qs = <<>> THEN <<>> ELSE Split(qs, "&"),
                           ForwardedPairs(event[i].query))

\* C8: an invocation issues at most one outbound call: exactly one when
\* datasetId is present and not empty, none otherwise; no second call follows
\* a failed one, and a response is returned only after the call has completed
\* or failed.
C8_ExactlyOneCall ==
    \A i \in Inv :
        LET qsp == event[i].queryStringParameters
            given == qsp.kind = "object" /\ ~MissingDatasetId(DatasetIdOf(qsp))
        IN  /\ Len(fetches[i]) <= 1
            /\ pc[i] # "idle" => Len(fetches[i]) = (IF given THEN 1 ELSE 0)
            /\ response[i].kind # "none" => Len(fetches[i]) = 1
            /\ (Finished(i) /\ given) => response[i].kind \in {"rejected", "resolved"}

\* the one call failed and the error response was returned
C8_Witness ==
    /\ pc[1] = "returned"
    /\ response[1].kind = "rejected"
    /\ Len(fetches[1]) = 1
    /\ result[1].statusCode = 500

\* C9: among invocations that run concurrently, the response of each is
\* determined by its own request, its own upstream outcome and the key: two
\* invocations with the same three end the same way, whatever the order in
\* which their calls completed.
C9_InvocationsDoNotInterfere ==
    \A i, j \in Inv :
        ( /\ Finished(i) /\ Finished(j)
          /\ event[i] = event[j]
          /\ CWA_API_KEY[i] = CWA_API_KEY[j]
          /\ response[i] = response[j] )
        => result[i] = result[j]

\* two invocations of the same request and key, both answered by the same
\* upstream response, have both returned
C9_Witness ==
    /\ pc[1] = "returned" /\ pc[2] = "returned"
    /\ event[1] = event[2]
    /\ CWA_API_KEY[1] = CWA_API_KEY[2]
    /\ response[1] = response[2]
    /\ response[1].kind = "resolved"
    /\ response[1].status = 404

\* C10: the key is the value of the single header Authorization: CWA <key> of
\* the outbound request and nothing else: invocations that differ only in the
\* key, with the same request and the same upstream outcome, have the same
\* upstream URL and return the same response.
C10_KeyOnlyInAuthorizationHeader ==
    /\ \A i \in Inv :
        \A n \in 1..Len(fetches[i]) :
            fetches[i][n].headers
                = {<<"Authorization", <<"C", "W", "A", " ">> \o KeyToString(CWA_API_KEY[i])>>}
    /\ \A i, j \in Inv :
        event[i] = event[j] =>
            /\ (fetches[i] # <<>> /\ fetches[j] # <<>>) => fetches[i][1].url = fetches[j][1].url
            /\ (Finished(i) /\ Finished(j) /\ response[i] = response[j])
                 => result[i] = result[j]

\* one invocation with no key and one with a key, same request, same upstream
\* response, have both returned
C10_Witness ==
    /\ pc[1] = "returned" /\ pc[2] = "returned"
    /\ event[1] = event[2]
    /\ CWA_API_KEY[1] = undefined /\ CWA_API_KEY[2] = <<"k", "1">>
    /\ response[1] = response[2]
    /\ response[1].kind = "resolved"
    /\ fetches[1] # <<>>
====
